---- MODULE Spec2Model ----
(***************************************************************************)
(* Model of the configuration resolver of nestjs-docker-good-defaults:     *)
(* configuration() merges defaultConfig with the overlay selected by       *)
(* NODE_ENV (developmentConfig, productionConfig, testConfig), every leaf   *)
(* being read from the environment through ConfigService.get.  Three more  *)
(* state machines follow it: the environment changing after the record was *)
(* resolved, bootstrap() of main.ts, which starts the server from the      *)
(* sections of the ConfigService, and the health-check script, which       *)
(* probes the server and exits.                                            *)
(*                                                                         *)
(* Strings are sequences of symbols.  A symbol is "," (the separator of    *)
(* ALLOWED_ORIGINS), " " (white space) or a word: an indivisible run of    *)
(* characters holding neither ("production", "https://yourdomain.com").    *)
(* The empty string is << >>.  JavaScript values carry their typeof in the *)
(* field t, so that the string "true" and the boolean true differ.         *)
(***************************************************************************)
EXTENDS Integers, Sequences, FiniteSets, TLC

VARIABLES
    env,     \* process.env as ConfigService reads it: variable -> {} or {value}
    config,  \* the record configuration() returned, NotLoaded before the call
    pc,      \* "env" while the environment is set up, "loaded" after the call
    snapshot,   \* the environment as it was when configuration() was called
    store,      \* the sections the ConfigService holds when bootstrap() runs
    bpc,        \* the statement bootstrap() is at, "idle" when it does not run
    modules,    \* what the module factories returned to NestFactory.create
    locals,     \* appConfig, corsConfig, helmetConfig as read so far
    installed,  \* the middleware installed on the app, in order
    listening,  \* the port the server listens on, Undefined while it does not
    out,        \* the lines written, to the logger and to console.error
    error,      \* the error thrown in bootstrap(): {} or {error}
    exitCode,   \* the exit code of the server process: {} or {code}
    hpc,        \* where the health-check script is, "idle" when it does not run
    probe,      \* where its request was sent: {} or {[host, port, path]}
    res,        \* the status code of the response it received: {} or {code}
    timedOut,   \* the request's 'timeout' event was emitted
    hcErr,      \* the lines the health-check script wrote to console.error
    hcExit      \* the exit code of the health-check script: {} or {code}

cfgVars == <<env, config, pc, snapshot>>
bootVars ==
    <<store, bpc, modules, locals, installed, listening, out, error, exitCode>>
hcVars == <<hpc, probe, res, timedOut, hcErr, hcExit>>
vars == <<cfgVars, bootVars, hcVars>>

(***************************************************************************)
(* Bounds of the model.                                                    *)
(***************************************************************************)
\* longest ALLOWED_ORIGINS value, in symbols
MaxLen == 3
\* most variables other than NODE_ENV set in one environment
MaxSet == 2

(***************************************************************************)
(* JavaScript values.                                                      *)
(***************************************************************************)
Str(s) == [t |-> "string", v |-> s]
Word(w) == Str(<<w>>)
Num(n) == [t |-> "number", v |-> n]
Bool(b) == [t |-> "boolean", v |-> b]
Arr(a) == [t |-> "array", v |-> a]
Obj(o) == [t |-> "object", v |-> o]
Fn(f) == [t |-> "function", v |-> f]
Undefined == [t |-> "undefined", v |-> << >>]

IsStr(x, s) == x.t = "string" /\ x.v = s
IsWord(x, w) == IsStr(x, <<w>>)
IsNum(x, n) == x.t = "number" /\ x.v = n
IsBool(x, b) == x.t = "boolean" /\ x.v = b

\* JavaScript truthiness of the values the configuration tests with ? :
Truthy(x) ==
    CASE x.t = "undefined" -> FALSE
      [] x.t = "string" -> x.v # << >>
      [] x.t = "boolean" -> x.v
      [] x.t = "number" -> x.v # 0
      [] OTHER -> TRUE

(***************************************************************************)
(* String operations.                                                      *)
(***************************************************************************)
IsSpace(c) == c = " "

RECURSIVE SplitFrom(_, _, _)
\* the pieces of s at separator sep, cur being the piece read so far
SplitFrom(s, sep, cur) ==
    IF s = << >> THEN <<cur>>
    ELSE IF Head(s) = sep THEN <<cur>> \o SplitFrom(Tail(s), sep, << >>)
    ELSE SplitFrom(Tail(s), sep, Append(cur, Head(s)))

\* String.prototype.split(sep): "".split(",") is [""]
Split(s, sep) == SplitFrom(s, sep, << >>)

RECURSIVE TrimStart(_)
TrimStart(s) ==
    IF s # << >> /\ IsSpace(Head(s)) THEN TrimStart(Tail(s)) ELSE s

RECURSIVE TrimEnd(_)
TrimEnd(s) ==
    IF s # << >> /\ IsSpace(s[Len(s)]) THEN TrimEnd(SubSeq(s, 1, Len(s) - 1)) ELSE s

\* String.prototype.trim()
Trim(s) == TrimEnd(TrimStart(s))

\* Array.prototype.map((origin) => origin.trim())
MapTrim(a) == [i \in DOMAIN a |-> Trim(a[i])]

\* Array.prototype.filter(Boolean) on an array of strings
FilterBoolean(a) == SelectSeq(a, LAMBDA x : x # << >>)

(***************************************************************************)
(* The environment: each variable is unset ({}) or holds one string.       *)
(***************************************************************************)
EnvKeys ==
    {"NODE_ENV", "PORT", "APP_NAME", "ALLOWED_ORIGINS", "CORS_CREDENTIALS",
     "THROTTLE_TTL", "THROTTLE_LIMIT", "LOG_LEVEL", "LOG_PRETTY"}

\* the symbols of the ALLOWED_ORIGINS values: one origin, the separator, a blank
OriginSymbols == {"https://a.com", ",", " "}

\* two different origins in either order ('https://a.com,https://b.com')
TwoOrigins ==
    {<<"https://a.com", ",", "https://b.com">>,
     <<"https://b.com", ",", "https://a.com">>}

\* the wildcard as the whole value ('*')
Wildcard == {<<"*">>}

RECURSIVE StringsUpTo(_)
StringsUpTo(n) ==
    IF n = 0 THEN {<< >>}
    ELSE LET shorter == StringsUpTo(n - 1)
         IN  shorter \cup {Append(s, c) : s \in shorter, c \in OriginSymbols}

\* the values the model gives each variable
EnvValues(k) ==
    CASE k = "NODE_ENV" ->
            {<<"development">>, <<"production">>, <<"test">>,
             <<"prod">>, <<"Production">>, <<"staging">>}
      [] k = "ALLOWED_ORIGINS" -> StringsUpTo(MaxLen) \cup TwoOrigins \cup Wildcard
      [] k = "LOG_LEVEL" -> {<<"warn">>, <<"verbose">>, << >>}
      [] k = "LOG_PRETTY" -> {<<"true">>, <<"false">>, <<"TRUE">>, <<"1">>}
      [] k = "CORS_CREDENTIALS" -> {<<"true">>, <<"false">>, <<"1">>}
      [] k = "PORT" -> {<<"8080">>}
      [] k = "APP_NAME" -> {<<"custom-app">>}
      [] k = "THROTTLE_TTL" -> {<<"120000">>}
      [] k = "THROTTLE_LIMIT" -> {<<"200">>}

IsSet(e, k) == e[k] # {}
ValueOf(e, k) == CHOOSE x \in e[k] : TRUE

\* ConfigService.get(key): the variable's raw string, undefined when unset
Get(e, k) == IF IsSet(e, k) THEN Str(ValueOf(e, k)) ELSE Undefined

\* ConfigService.get(key, defaultValue): no conversion is made
GetOr(e, k, d) == IF IsSet(e, k) THEN Str(ValueOf(e, k)) ELSE d

(***************************************************************************)
(* defaultConfig: the base table.                                          *)
(***************************************************************************)
\* JavaScript === on primitive values
StrictEq(a, b) == a.t = b.t /\ a.v = b.v

\* HstsOneYear with half the max-age
HstsHalfYear ==
    Obj([maxAge |-> Num(15768000),
         includeSubDomains |-> Bool(TRUE),
         preload |-> Bool(TRUE)])

\* the HSTS structure written in defaultConfig and again in productionConfig
HstsOneYear ==
    Obj([maxAge |-> Num(31536000),
         includeSubDomains |-> Bool(TRUE),
         preload |-> Bool(TRUE)])

defaultConfig(e) ==
    [app |->
        [env |-> GetOr(e, "NODE_ENV", Word("development")),
         port |-> GetOr(e, "PORT", Num(3000)),
         name |-> GetOr(e, "APP_NAME", Word("nestjs-app"))],
     cors |->
        [credentials |-> Bool(FALSE),
         origin |-> Bool(TRUE),
         methods |-> Arr(<< <<"GET">>, <<"POST">>, <<"PUT">>, <<"PATCH">>,
                            <<"DELETE">>, <<"OPTIONS">> >>),
         allowedHeaders |-> Arr(<< <<"Content-Type">>, <<"Accept">>,
                                   <<"Authorization">> >>),
         exposedHeaders |-> Arr(<< <<"X-Total-Count">>, <<"X-Page-Count">>,
                                   <<"Location">> >>),
         maxAge |-> Num(86400)],
     throttle |->
        [throttlers |->
            Arr(<< [ttl |-> GetOr(e, "THROTTLE_TTL", Num(60000)),
                    limit |-> GetOr(e, "THROTTLE_LIMIT", Num(100))] >>),
         \* () => process.env.NODE_ENV !== 'production', read when called
         skipIf |-> Fn("envNotProduction")],
     helmet |->
        [frameguard |-> Obj([action |-> <<"deny">>]),
         noSniff |-> Bool(TRUE),
         hidePoweredBy |-> Bool(TRUE),
         dnsPrefetchControl |-> Obj([allow |-> Bool(FALSE)]),
         ieNoOpen |-> Bool(TRUE),
         hsts |-> IF StrictEq(Get(e, "NODE_ENV"), Word("production"))
                  THEN HstsOneYear
                  ELSE Bool(FALSE)],
     logging |->
        [level |-> GetOr(e, "LOG_LEVEL", Word("info")),
         prettyPrint |->
            Bool(StrictEq(GetOr(e, "LOG_PRETTY", Word("false")), Word("true")))]]

(***************************************************************************)
(* The overlays.  An overlay holds only the sections and keys it writes.   *)
(***************************************************************************)
LocalOrigins ==
    << <<"http://localhost:3000">>,
       <<"http://localhost:3001">>,
       <<"http://localhost:4200">>,
       <<"http://localhost:5173">>,
       <<"http://localhost:8080">>,
       <<"http://127.0.0.1:3000">>,
       <<"http://127.0.0.1:3001">> >>

\* developmentOrigins testing for undefined instead of truthiness
developmentOriginsIfDefined(e) ==
    LET allowedOriginsEnv == Get(e, "ALLOWED_ORIGINS")
    IN  IF allowedOriginsEnv.t # "undefined"
        THEN MapTrim(Split(allowedOriginsEnv.v, ","))
        ELSE LocalOrigins

developmentOrigins(e) ==
    LET allowedOriginsEnv == Get(e, "ALLOWED_ORIGINS")
    IN  IF Truthy(allowedOriginsEnv)
        THEN MapTrim(Split(allowedOriginsEnv.v, ","))
        ELSE LocalOrigins

\* developmentConfig with the level fixed to 'debug'
developmentConfigFixedLevel(e) ==
    [cors |-> [origin |-> Arr(developmentOrigins(e))],
     throttle |-> [skipIf |-> Fn("constTrue")],
     helmet |-> [hsts |-> Bool(FALSE)],
     logging |->
        [level |-> Word("debug"),
         prettyPrint |->
            Bool(StrictEq(GetOr(e, "LOG_PRETTY", Word("true")), Word("true")))]]

\* developmentConfig leaving skipIf to the base table
developmentConfigNoSkipIf(e) ==
    [cors |-> [origin |-> Arr(developmentOrigins(e))],
     helmet |-> [hsts |-> Bool(FALSE)],
     logging |->
        [level |-> GetOr(e, "LOG_LEVEL", Word("debug")),
         prettyPrint |->
            Bool(StrictEq(GetOr(e, "LOG_PRETTY", Word("true")), Word("true")))]]

\* developmentConfig reading CORS_CREDENTIALS as production does
developmentConfigReadsCredentials(e) ==
    [cors |->
        [origin |-> Arr(developmentOrigins(e)),
         credentials |-> GetOr(e, "CORS_CREDENTIALS", Bool(FALSE))],
     throttle |-> [skipIf |-> Fn("constTrue")],
     helmet |-> [hsts |-> Bool(FALSE)],
     logging |->
        [level |-> GetOr(e, "LOG_LEVEL", Word("debug")),
         prettyPrint |->
            Bool(StrictEq(GetOr(e, "LOG_PRETTY", Word("true")), Word("true")))]]

developmentConfig(e) ==
    [cors |-> [origin |-> Arr(developmentOrigins(e))],
     throttle |-> [skipIf |-> Fn("constTrue")],
     helmet |-> [hsts |-> Bool(FALSE)],
     logging |->
        [level |-> GetOr(e, "LOG_LEVEL", Word("debug")),
         prettyPrint |->
            Bool(StrictEq(GetOr(e, "LOG_PRETTY", Word("true")), Word("true")))]]

\* allowedOrigins without the split: the whole value as one origin
allowedOriginsUnsplit(e) ==
    FilterBoolean(<<GetOr(e, "ALLOWED_ORIGINS", Word("https://yourdomain.com")).v>>)

\* allowedOrigins taking the placeholder for the empty string too (||)
allowedOriginsOrPlaceholder(e) ==
    LET value == Get(e, "ALLOWED_ORIGINS")
    IN  FilterBoolean(
            Split((IF Truthy(value) THEN value ELSE Word("https://yourdomain.com")).v,
                  ","))

allowedOrigins(e) ==
    FilterBoolean(
        Split(GetOr(e, "ALLOWED_ORIGINS", Word("https://yourdomain.com")).v, ","))

\* productionConfig with throttling skipped
productionConfigSkipTrue(e) ==
    [cors |->
        [origin |-> Arr(allowedOrigins(e)),
         credentials |-> GetOr(e, "CORS_CREDENTIALS", Bool(FALSE))],
     throttle |-> [skipIf |-> Fn("constTrue")],
     helmet |-> [hsts |-> HstsOneYear],
     logging |->
        [level |-> GetOr(e, "LOG_LEVEL", Word("info")),
         prettyPrint |->
            Bool(StrictEq(GetOr(e, "LOG_PRETTY", Word("false")), Word("true")))]]

\* productionConfig handing LOG_PRETTY on as it is read (no === 'true')
productionConfigRawPretty(e) ==
    [cors |->
        [origin |-> Arr(allowedOrigins(e)),
         credentials |-> GetOr(e, "CORS_CREDENTIALS", Bool(FALSE))],
     throttle |-> [skipIf |-> Fn("constFalse")],
     helmet |-> [hsts |-> HstsOneYear],
     logging |->
        [level |-> GetOr(e, "LOG_LEVEL", Word("info")),
         prettyPrint |-> GetOr(e, "LOG_PRETTY", Bool(FALSE))]]

productionConfig(e) ==
    [cors |->
        [origin |-> Arr(allowedOrigins(e)),
         credentials |-> GetOr(e, "CORS_CREDENTIALS", Bool(FALSE))],
     throttle |-> [skipIf |-> Fn("constFalse")],
     helmet |-> [hsts |-> HstsOneYear],
     logging |->
        [level |-> GetOr(e, "LOG_LEVEL", Word("info")),
         prettyPrint |->
            Bool(StrictEq(GetOr(e, "LOG_PRETTY", Word("false")), Word("true")))]]

\* testConfig without an app section of its own
testConfigNoApp(e) ==
    [cors |-> [origin |-> Bool(TRUE)],
     throttle |-> [skipIf |-> Fn("constTrue")],
     helmet |-> [hsts |-> Bool(FALSE)]]

\* testConfig clearing the throttler list
testConfigNoThrottlers(e) ==
    [app |->
        [port |-> GetOr(e, "PORT", Num(3001)),
         name |-> GetOr(e, "APP_NAME", Word("nestjs-app-test"))],
     cors |-> [origin |-> Bool(TRUE)],
     throttle |-> [throttlers |-> Arr(<< >>), skipIf |-> Fn("constTrue")],
     helmet |-> [hsts |-> Bool(FALSE)]]

\* testConfig taking its origins from ALLOWED_ORIGINS as production does
testConfigOriginsFromEnv(e) ==
    [app |->
        [port |-> GetOr(e, "PORT", Num(3001)),
         name |-> GetOr(e, "APP_NAME", Word("nestjs-app-test"))],
     cors |->
        [origin |-> IF IsSet(e, "ALLOWED_ORIGINS")
                    THEN Arr(allowedOrigins(e)) ELSE Bool(TRUE)],
     throttle |-> [skipIf |-> Fn("constTrue")],
     helmet |-> [hsts |-> Bool(FALSE)]]

\* testConfig with a logging section of its own, copied from development
testConfigWithLogging(e) ==
    [app |->
        [port |-> GetOr(e, "PORT", Num(3001)),
         name |-> GetOr(e, "APP_NAME", Word("nestjs-app-test"))],
     cors |-> [origin |-> Bool(TRUE)],
     throttle |-> [skipIf |-> Fn("constTrue")],
     helmet |-> [hsts |-> Bool(FALSE)],
     logging |->
        [level |-> GetOr(e, "LOG_LEVEL", Word("debug")),
         prettyPrint |->
            Bool(StrictEq(GetOr(e, "LOG_PRETTY", Word("true")), Word("true")))]]

testConfig(e) ==
    [app |->
        [port |-> GetOr(e, "PORT", Num(3001)),
         name |-> GetOr(e, "APP_NAME", Word("nestjs-app-test"))],
     cors |-> [origin |-> Bool(TRUE)],
     throttle |-> [skipIf |-> Fn("constTrue")],
     helmet |-> [hsts |-> Bool(FALSE)]]

(***************************************************************************)
(* configuration(): overlay selection and the shallow merge.               *)
(***************************************************************************)
Sections == {"app", "cors", "throttle", "helmet", "logging"}

\* envConfig matching 'production' whatever the case of its first letter
envConfigAnyCase(e) ==
    LET envName == GetOr(e, "NODE_ENV", Word("development"))
    IN  CASE envName.v \in {<<"production">>, <<"Production">>} -> productionConfig(e)
          [] StrictEq(envName, Word("test")) -> testConfig(e)
          [] OTHER -> developmentConfig(e)

\* the switch on NODE_ENV
envConfig(e) ==
    LET envName == GetOr(e, "NODE_ENV", Word("development"))
    IN  CASE StrictEq(envName, Word("production")) -> productionConfig(e)
          [] StrictEq(envName, Word("test")) -> testConfig(e)
          [] OTHER -> developmentConfig(e)

\* { ...source, ...target }: the base value wins
SpreadBaseWins(target, source) ==
    [k \in DOMAIN target \cup DOMAIN source |->
        IF k \in DOMAIN target THEN target[k] ELSE source[k]]

\* overlay.section, << >> (no keys) when the overlay has no such section
SectionOf(overlay, s) == IF s \in DOMAIN overlay THEN overlay[s] ELSE << >>

\* { ...target, ...source }: spreading undefined adds nothing
Spread(target, source) ==
    [k \in DOMAIN target \cup DOMAIN source |->
        IF k \in DOMAIN source THEN source[k] ELSE target[k]]

\* mergedConfig taking logging from the overlay alone (logging: envConfig.logging)
mergedConfigOverlayLogging(baseConfig, overlay) ==
    [app |-> Spread(baseConfig.app, SectionOf(overlay, "app")),
     cors |-> Spread(baseConfig.cors, SectionOf(overlay, "cors")),
     throttle |-> Spread(baseConfig.throttle, SectionOf(overlay, "throttle")),
     helmet |-> Spread(baseConfig.helmet, SectionOf(overlay, "helmet")),
     logging |-> IF "logging" \in DOMAIN overlay THEN overlay["logging"] ELSE Undefined]

\* mergedConfig spreading the tables at the top level only
\* ({ ...baseConfig, ...envConfig }): an overlay's section replaces the base's
mergedConfigTopLevel(baseConfig, overlay) ==
    [s \in Sections |->
        IF s \in DOMAIN overlay THEN overlay[s] ELSE baseConfig[s]]

mergedConfig(baseConfig, overlay) ==
    [app |-> Spread(baseConfig.app, SectionOf(overlay, "app")),
     cors |-> Spread(baseConfig.cors, SectionOf(overlay, "cors")),
     throttle |-> Spread(baseConfig.throttle, SectionOf(overlay, "throttle")),
     helmet |-> Spread(baseConfig.helmet, SectionOf(overlay, "helmet")),
     logging |-> Spread(baseConfig.logging, SectionOf(overlay, "logging"))]

configuration(e) == mergedConfig(defaultConfig(e), envConfig(e))

\* calling a skipIf closure when the process environment is e
CallSkipIf(f, e) ==
    CASE f.v = "constTrue" -> TRUE
      [] f.v = "constFalse" -> FALSE
      [] f.v = "envNotProduction" -> ~StrictEq(Get(e, "NODE_ENV"), Word("production"))

(***************************************************************************)
(* The state machine: the environment is set up, then configuration()      *)
(* is called.                                                              *)
(***************************************************************************)
NotLoaded == << >>

\* bootstrap() not run: nothing held, nothing installed, no listener
BootIdle ==
    /\ store = << >>
    /\ bpc = "idle"
    /\ modules = << >>
    /\ locals = << >>
    /\ installed = << >>
    /\ listening = Undefined
    /\ out = << >>
    /\ error = {}
    /\ exitCode = {}

\* the health-check script not run
HealthIdle ==
    /\ hpc = "idle"
    /\ probe = {}
    /\ res = {}
    /\ timedOut = FALSE
    /\ hcErr = << >>
    /\ hcExit = {}

Init ==
    /\ env = [k \in EnvKeys |-> {}]
    /\ config = NotLoaded
    /\ pc = "env"
    /\ snapshot = NotLoaded
    /\ BootIdle
    /\ HealthIdle

Overrides(e) == {k \in EnvKeys \ {"NODE_ENV"} : IsSet(e, k)}

SetEnv(k, v) ==
    /\ pc = "env"
    /\ ~IsSet(env, k)
    /\ k # "NODE_ENV" => Cardinality(Overrides(env)) < MaxSet
    /\ env' = [env EXCEPT ![k] = {v}]
    /\ UNCHANGED <<config, pc, snapshot, bootVars, hcVars>>

\* configuration() is called with the environment as it is
Configure ==
    /\ pc = "env"
    /\ config' = configuration(env)
    /\ snapshot' = env
    /\ pc' = "loaded"
    /\ UNCHANGED <<env, bootVars, hcVars>>

Next ==
    \/ \E k \in EnvKeys : \E v \in EnvValues(k) : SetEnv(k, v)
    \/ Configure

Spec == Init /\ [][Next]_vars

(***************************************************************************)
(* The process environment changing after configuration() has returned:    *)
(* process.env is writable for the whole life of the process.              *)
(***************************************************************************)
\* most variables that differ from the snapshot at one time
MaxChanged == 2

\* the environment names the process is started under
StartEnvs ==
    {[k \in EnvKeys |-> IF k = "NODE_ENV" THEN n ELSE {}] :
        n \in {{}, {<<"development">>}, {<<"production">>}, {<<"test">>},
               {<<"staging">>}}}

\* the values a variable is changed to
ChangeValues(k) ==
    IF k = "ALLOWED_ORIGINS" THEN TwoOrigins \cup Wildcard \cup {<< >>}
    ELSE EnvValues(k)

\* the variables that no longer are what configuration() saw
Changed(e) == {k \in EnvKeys : e[k] # snapshot[k]}

InitChange ==
    /\ env \in StartEnvs
    /\ config = NotLoaded
    /\ pc = "env"
    /\ snapshot = NotLoaded
    /\ BootIdle
    /\ HealthIdle

\* process.env[k] = v, after the record was resolved
ChangeEnv(k, v) ==
    /\ pc = "loaded"
    /\ env[k] # {v}
    /\ Cardinality(Changed([env EXCEPT ![k] = {v}])) <= MaxChanged
    /\ env' = [env EXCEPT ![k] = {v}]
    /\ UNCHANGED <<config, pc, snapshot, bootVars, hcVars>>

\* delete process.env[k], after the record was resolved
DeleteEnv(k) ==
    /\ pc = "loaded"
    /\ IsSet(env, k)
    /\ Cardinality(Changed([env EXCEPT ![k] = {}])) <= MaxChanged
    /\ env' = [env EXCEPT ![k] = {}]
    /\ UNCHANGED <<config, pc, snapshot, bootVars, hcVars>>

NextChange ==
    \/ Configure
    \/ \E k \in EnvKeys : \E v \in ChangeValues(k) : ChangeEnv(k, v)
    \/ \E k \in EnvKeys : DeleteEnv(k)

SpecChange == InitChange /\ [][NextChange]_vars

(***************************************************************************)
(* bootstrap() of main.ts.  NestFactory.create runs the two module         *)
(* factories; the sections of app, cors and helmet are read with           *)
(* getOrThrow; the middleware is installed; the server listens.  An error  *)
(* thrown anywhere rejects the promise and runs the catch callback.        *)
(***************************************************************************)
Throw(e) == [threw |-> TRUE, error |-> e]
Return(v) == [threw |-> FALSE, value |-> v]

\* new Error(message), new TypeError(message)
Error(message) == [name |-> "Error", message |-> message]
TypeError(message) == [name |-> "TypeError", message |-> message]

\* configService.get(section): the section object, undefined when absent
StoreGet(st, key) == IF key \in DOMAIN st THEN Obj(st[key]) ELSE Undefined

\* configService.getOrThrow(section): throws for an undefined value
getOrThrow(st, key) ==
    IF StoreGet(st, key) = Undefined
    THEN Throw(TypeError(<<"Configuration key", key, "does not exist">>))
    ELSE Return(StoreGet(st, key))

\* loggerModuleFactory that falls back to a default logger
loggerModuleFactoryLenient(st) ==
    LET loggingConfig == StoreGet(st, "logging")
    IN  IF ~Truthy(loggingConfig)
        THEN Return([pinoHttp |->
                        [level |-> Word("info"), autoLogging |-> Bool(FALSE)]])
        ELSE Return([pinoHttp |->
                        [level |-> loggingConfig.v.level,
                         autoLogging |-> Bool(FALSE)]])

\* loggerModuleFactory setting the transport whatever prettyPrint is
loggerModuleFactoryAlwaysPretty(st) ==
    LET loggingConfig == StoreGet(st, "logging")
    IN  IF ~Truthy(loggingConfig)
        THEN Throw(Error(<<"Logging configuration not found. Ensure ConfigModule is properly configured.">>))
        ELSE Return([pinoHttp |->
                        [level |-> loggingConfig.v.level,
                         autoLogging |-> Bool(FALSE),
                         transport |->
                            [target |-> Word("pino-pretty"),
                             options |->
                                [singleLine |-> Bool(FALSE),
                                 colorize |-> Bool(TRUE)]]]])

loggerModuleFactory(st) ==
    LET loggingConfig == StoreGet(st, "logging")
    IN  IF ~Truthy(loggingConfig)
        THEN Throw(Error(<<"Logging configuration not found. Ensure ConfigModule is properly configured.">>))
        ELSE IF Truthy(loggingConfig.v.prettyPrint)
        THEN Return([pinoHttp |->
                        [level |-> loggingConfig.v.level,
                         autoLogging |-> Bool(FALSE),
                         transport |->
                            [target |-> Word("pino-pretty"),
                             options |->
                                [singleLine |-> Bool(FALSE),
                                 colorize |-> Bool(TRUE)]]]])
        ELSE Return([pinoHttp |->
                        [level |-> loggingConfig.v.level,
                         autoLogging |-> Bool(FALSE)]])

throttlerModuleFactory(st) ==
    LET throttle == StoreGet(st, "throttle")
    IN  IF ~Truthy(throttle)
        THEN Throw(Error(<<"Throttle configuration not found. Ensure ConfigModule is properly configured.">>))
        ELSE Return(throttle.v)

\* `${value}` of a port
TemplateText(x) ==
    CASE x.t = "string" -> x.v
      [] x = Num(3000) -> <<"3000">>
      [] x = Num(3001) -> <<"3001">>

\* the environments bootstrap() is started in
BootEnvs ==
    {[k \in EnvKeys |->
        IF k = "NODE_ENV" THEN n ELSE IF k = "PORT" THEN p ELSE {}] :
        n \in {{}, {<<"production">>}, {<<"test">>}},
        p \in {{}} \cup {{v} : v \in EnvValues("PORT")}}

\* the ConfigService holding only the sections of present
StoreOf(cfg, present) == [s \in present |-> cfg[s]]

\* bootstrap() is about to run; the ConfigService holds some of the sections
\* of the resolved record (all of them when ConfigModule loaded configuration)
InitBoot ==
    /\ env \in BootEnvs
    /\ config = configuration(env)
    /\ pc = "loaded"
    /\ snapshot = env
    /\ store \in {StoreOf(config, present) : present \in SUBSET Sections}
    /\ bpc = "create"
    /\ modules = << >>
    /\ locals = << >>
    /\ installed = << >>
    /\ listening = Undefined
    /\ out = << >>
    /\ error = {}
    /\ exitCode = {}
    /\ HealthIdle

\* await NestFactory.create(AppModule, ...): both factories are called, in
\* an order the framework chooses; the first error rejects
Create ==
    /\ bpc = "create"
    /\ LET logger == loggerModuleFactory(store)
           throttler == throttlerModuleFactory(store)
       IN  \/ /\ ~logger.threw /\ ~throttler.threw
              /\ modules' = [logger |-> logger.value, throttler |-> throttler.value]
              /\ bpc' = "useLogger"
              /\ UNCHANGED error
           \/ /\ logger.threw
              /\ error' = {logger.error}
              /\ bpc' = "catch"
              /\ UNCHANGED modules
           \/ /\ throttler.threw
              /\ error' = {throttler.error}
              /\ bpc' = "catch"
              /\ UNCHANGED modules
    /\ UNCHANGED <<store, locals, installed, listening, out, exitCode>>
    /\ UNCHANGED <<cfgVars, hcVars>>

\* const logger = app.get(Logger); app.useLogger(logger);
\* const configService = app.get(ConfigService)
UseLogger ==
    /\ bpc = "useLogger"
    /\ bpc' = "app"
    /\ UNCHANGED <<store, modules, locals, installed, listening, out, error, exitCode>>
    /\ UNCHANGED <<cfgVars, hcVars>>

\* the statement order with listen moved before the middleware
AfterReadListenFirst(key) ==
    CASE key = "app" -> "cors"
      [] key = "cors" -> "helmet"
      [] key = "helmet" -> "listen"

\* the statement after the getOrThrow of key
AfterRead(key) ==
    CASE key = "app" -> "cors"
      [] key = "cors" -> "helmet"
      [] key = "helmet" -> "useHelmet"

\* const xConfig = configService.getOrThrow('x')
ReadSection(key) ==
    /\ bpc = key
    /\ LET r == getOrThrow(store, key)
       IN  IF r.threw
           THEN /\ error' = {r.error}
                /\ bpc' = "catch"
                /\ UNCHANGED locals
           ELSE /\ locals' = [k \in DOMAIN locals \cup {key} |->
                                 IF k = key THEN r.value.v ELSE locals[k]]
                /\ bpc' = AfterRead(key)
                /\ UNCHANGED error
    /\ UNCHANGED <<store, modules, installed, listening, out, exitCode>>
    /\ UNCHANGED <<cfgVars, hcVars>>

\* app.use(helmet(helmetConfig))
UseHelmet ==
    /\ bpc = "useHelmet"
    /\ installed' = Append(installed, [name |-> "helmet", options |-> locals["helmet"]])
    /\ bpc' = "enableCors"
    /\ UNCHANGED <<store, modules, locals, listening, out, error, exitCode>>
    /\ UNCHANGED <<cfgVars, hcVars>>

\* app.enableCors(corsConfig)
EnableCors ==
    /\ bpc = "enableCors"
    /\ installed' = Append(installed, [name |-> "cors", options |-> locals["cors"]])
    /\ bpc' = "listen"
    /\ UNCHANGED <<store, modules, locals, listening, out, error, exitCode>>
    /\ UNCHANGED <<cfgVars, hcVars>>

\* listen with a failed bind swallowed: bootstrap goes on without a listener
ListenSwallowsFailure ==
    /\ bpc = "listen"
    /\ \/ /\ listening' = locals["app"].port
          /\ UNCHANGED error
       \/ /\ error' = {Error(<<"listen EADDRINUSE">>)}
          /\ UNCHANGED listening
    /\ bpc' = "log"
    /\ UNCHANGED <<store, modules, locals, installed, out, exitCode>>
    /\ UNCHANGED <<cfgVars, hcVars>>

\* await app.listen(appConfig.port): the server binds the port, or the bind
\* fails (the port is in use) and the promise rejects
Listen ==
    /\ bpc = "listen"
    /\ \/ /\ listening' = locals["app"].port
          /\ bpc' = "log"
          /\ UNCHANGED error
       \/ /\ error' = {Error(<<"listen EADDRINUSE">>)}
          /\ bpc' = "catch"
          /\ UNCHANGED listening
    /\ UNCHANGED <<store, modules, locals, installed, out, exitCode>>
    /\ UNCHANGED <<cfgVars, hcVars>>

\* logger.log(`Application started at http://localhost:${appConfig.port}`)
LogStarted ==
    /\ bpc = "log"
    /\ out' = Append(out,
                 [to |-> "logger",
                  text |-> <<"Application started at http://localhost:">>
                              \o TemplateText(locals["app"].port)])
    /\ bpc' = "running"
    /\ UNCHANGED <<store, modules, locals, installed, listening, error, exitCode>>
    /\ UNCHANGED <<cfgVars, hcVars>>

\* bootstrap().catch(error => { console.error(...); process.exit(1) })
Catch ==
    /\ bpc = "catch"
    /\ out' = Append(out,
                 [to |-> "console.error",
                  text |-> <<"Failed to start application:">>,
                  error |-> error])
    /\ exitCode' = {1}
    /\ bpc' = "exited"
    /\ UNCHANGED <<store, modules, locals, installed, listening, error>>
    /\ UNCHANGED <<cfgVars, hcVars>>

NextBoot ==
    \/ Create
    \/ UseLogger
    \/ \E key \in {"app", "cors", "helmet"} : ReadSection(key)
    \/ UseHelmet
    \/ EnableCors
    \/ Listen
    \/ LogStarted
    \/ Catch

SpecBoot == InitBoot /\ [][NextBoot]_vars

(***************************************************************************)
(* The health-check script: one HTTP request to the server, one exit.      *)
(***************************************************************************)
\* the request options aimed at the port of the test environment
optionsTestPort ==
    [timeout |-> 2000, host |-> "localhost", port |-> 3001, path |-> "/health"]

\* the request options of the script
options ==
    [timeout |-> 2000, host |-> "localhost", port |-> 3000, path |-> "/health"]

\* the status codes a final response can carry (an interim 1xx response
\* does not run the response callback)
StatusCodes == 200..599

\* the ports bootstrap() leaves the server listening on, Undefined for none
ListenerStates == {Undefined, Num(3000), Num(3001)} \cup
                  {Str(v) : v \in EnvValues("PORT")}

\* the request reaches the server: it listens on the port the script probes
Reached == \E target \in probe : listening = Num(target.port)

\* the response callback without the 404 branch
ExitCodeForNo404(statusCode) ==
    IF statusCode >= 200 /\ statusCode < 400 THEN 0 ELSE 1

\* the response callback: the code it hands to process.exit
ExitCodeFor(statusCode) ==
    IF statusCode >= 200 /\ statusCode < 400 THEN 0
    ELSE IF statusCode = 404 THEN 0
    ELSE 1

\* the script is started beside a server in one of its states
InitHealth ==
    /\ env = [k \in EnvKeys |-> {}]
    /\ config = NotLoaded
    /\ pc = "env"
    /\ snapshot = NotLoaded
    /\ store = << >>
    /\ bpc = "idle"
    /\ modules = << >>
    /\ locals = << >>
    /\ installed = << >>
    /\ listening \in ListenerStates
    /\ out = << >>
    /\ error = {}
    /\ exitCode = {}
    /\ hpc = "start"
    /\ probe = {}
    /\ res = {}
    /\ timedOut = FALSE
    /\ hcErr = << >>
    /\ hcExit = {}

\* const req = http.request(options, ...); req.on('error', ...); req.end()
SendRequest ==
    /\ hpc = "start"
    /\ probe' = {[host |-> options.host, port |-> options.port, path |-> options.path]}
    /\ hpc' = "pending"
    /\ UNCHANGED <<res, timedOut, hcErr, hcExit>>
    /\ UNCHANGED <<cfgVars, bootVars>>

\* the response callback, for a response with this status code
OnResponse(statusCode) ==
    /\ hpc = "pending"
    /\ Reached
    /\ res' = {statusCode}
    /\ UNCHANGED probe
    /\ hcErr' = IF ExitCodeFor(statusCode) = 0 THEN hcErr
                ELSE Append(hcErr, <<"Healthcheck failed with status:", statusCode>>)
    /\ hcExit' = {ExitCodeFor(statusCode)}
    /\ hpc' = "exited"
    /\ UNCHANGED timedOut
    /\ UNCHANGED <<cfgVars, bootVars>>

\* the 'error' listener: the connection is refused when nothing listens on
\* the port, or breaks before a response arrives
OnError ==
    /\ hpc = "pending"
    /\ hcErr' = Append(hcErr, <<"Healthcheck error:">>)
    /\ hcExit' = {1}
    /\ hpc' = "exited"
    /\ UNCHANGED <<probe, res, timedOut>>
    /\ UNCHANGED <<cfgVars, bootVars>>

\* options.timeout passes with the socket idle: the request emits 'timeout',
\* for which the script registers no listener; the request stays open
OnTimeout ==
    /\ hpc = "pending"
    /\ Reached
    /\ ~timedOut
    /\ timedOut' = TRUE
    /\ UNCHANGED <<hpc, probe, res, hcErr, hcExit>>
    /\ UNCHANGED <<cfgVars, bootVars>>

NextHealth ==
    \/ SendRequest
    \/ \E statusCode \in StatusCodes : OnResponse(statusCode)
    \/ OnError
    \/ OnTimeout

SpecHealth == InitHealth /\ [][NextHealth]_vars

(***************************************************************************)
(* What the properties speak of.                                           *)
(***************************************************************************)
Loaded == pc = "loaded"

\* NODE_ENV is set to exactly the word w
NodeEnvIs(w) == IsSet(env, "NODE_ENV") /\ ValueOf(env, "NODE_ENV") = <<w>>

\* the overlay that { development, production, test } names
OverlayNamed(name) ==
    CASE name = "production" -> productionConfig(env)
      [] name = "test" -> testConfig(env)
      [] name = "development" -> developmentConfig(env)

\* an absent or null value
IsNullish(x) == "t" \in DOMAIN x /\ x.t \in {"undefined", "null"}

(***************************************************************************)
(* C1: for every environment name and every assignment of the environment  *)
(* variables, the record configuration() returns has exactly the sections  *)
(* app, cors, throttle, helmet and logging, each present and non-null.     *)
(***************************************************************************)
C1_FiveSections ==
    Loaded =>
        /\ DOMAIN config = {"app", "cors", "throttle", "helmet", "logging"}
        /\ \A s \in DOMAIN config :
              /\ ~IsNullish(config[s])
              /\ DOMAIN config[s] # {}

\* the test overlay has no logging section, and the record still has one
C1_Witness ==
    /\ Loaded
    /\ NodeEnvIs("test")
    /\ "logging" \notin DOMAIN testConfig(env)
    /\ DOMAIN config["logging"] = {"level", "prettyPrint"}

\* the overlay NODE_ENV names: 'production' and 'test' exactly, else development
C2_ExpectedOverlay ==
    IF NodeEnvIs("production") THEN "production"
    ELSE IF NodeEnvIs("test") THEN "test"
    ELSE "development"

(***************************************************************************)
(* C2: the overlay is chosen by exact, case-sensitive match of NODE_ENV:   *)
(* 'production', 'test' and 'development' select their overlays, and every *)
(* other value (unset, 'prod', 'Production', 'staging') selects the        *)
(* development overlay.                                                    *)
(***************************************************************************)
C2_OverlayByExactMatch ==
    Loaded =>
        /\ config = mergedConfig(defaultConfig(env), OverlayNamed(C2_ExpectedOverlay))
        /\ \A other \in {"production", "test", "development"} \ {C2_ExpectedOverlay} :
              config # mergedConfig(defaultConfig(env), OverlayNamed(other))

\* 'Production' is not 'production': the development overlay is merged
C2_Witness ==
    /\ Loaded
    /\ NodeEnvIs("Production")
    /\ config = mergedConfig(defaultConfig(env), developmentConfig(env))
    /\ IsBool(config.helmet.hsts, FALSE)

(***************************************************************************)
(* C3: for each section and each key k, the merged value of k is the       *)
(* overlay's when the selected overlay's section defines k and the base    *)
(* value otherwise; a nested value such as helmet.hsts comes whole from    *)
(* one side.                                                               *)
(***************************************************************************)
C3_ShallowMerge ==
    Loaded =>
        \A s \in Sections :
            LET base == defaultConfig(env)[s]
                over == envConfig(env)
                defined == IF s \in DOMAIN over THEN DOMAIN over[s] ELSE {}
            IN  /\ DOMAIN config[s] = DOMAIN base \cup defined
                /\ \A k \in DOMAIN config[s] :
                      config[s][k] = IF k \in defined THEN over[s][k] ELSE base[k]

\* test: app.port comes from the overlay, app.env stays the base value
C3_Witness ==
    /\ Loaded
    /\ NodeEnvIs("test")
    /\ ~IsSet(env, "PORT")
    /\ IsNum(config.app.port, 3001)
    /\ IsNum(defaultConfig(env).app.port, 3000)
    /\ IsWord(config.app.env, "test")

(***************************************************************************)
(* C4: for every environment name, when LOG_LEVEL is set the resolved      *)
(* logging.level equals the LOG_LEVEL value.                               *)
(***************************************************************************)
C4_LogLevelWins ==
    (Loaded /\ IsSet(env, "LOG_LEVEL")) =>
        IsStr(config.logging.level, ValueOf(env, "LOG_LEVEL"))

\* development, LOG_LEVEL=warn: neither 'info' nor 'debug'
C4_Witness ==
    /\ Loaded
    /\ NodeEnvIs("development")
    /\ env["LOG_LEVEL"] = {<<"warn">>}
    /\ IsWord(config.logging.level, "warn")

(***************************************************************************)
(* C5: the resolved throttle.skipIf() returns false when the environment   *)
(* name is exactly 'production' and true for every other name, whatever    *)
(* the other environment variables are.                                    *)
(***************************************************************************)
C5_SkipIfOnlyOutsideProduction ==
    Loaded =>
        /\ config.throttle.skipIf.t = "function"
        /\ CallSkipIf(config.throttle.skipIf, env) = ~NodeEnvIs("production")

\* production with other variables set: throttling is enforced
C5_Witness ==
    /\ Loaded
    /\ NodeEnvIs("production")
    /\ Cardinality(Overrides(env)) >= 2
    /\ ~CallSkipIf(config.throttle.skipIf, env)

(***************************************************************************)
(* C6: the resolved helmet.hsts is false for every environment name other  *)
(* than 'production', and in production it is exactly {maxAge: 31536000,   *)
(* includeSubDomains: true, preload: true}; no other variable changes it.  *)
(***************************************************************************)
C6_HstsOnlyInProduction ==
    Loaded =>
        IF NodeEnvIs("production")
        THEN /\ config.helmet.hsts.t = "object"
             /\ DOMAIN config.helmet.hsts.v = {"maxAge", "includeSubDomains", "preload"}
             /\ IsNum(config.helmet.hsts.v.maxAge, 31536000)
             /\ IsBool(config.helmet.hsts.v.includeSubDomains, TRUE)
             /\ IsBool(config.helmet.hsts.v.preload, TRUE)
        ELSE IsBool(config.helmet.hsts, FALSE)

\* production with another variable set: the one-year structure
C6_Witness ==
    /\ Loaded
    /\ NodeEnvIs("production")
    /\ Overrides(env) # {}
    /\ config.helmet.hsts.t = "object"
    /\ IsNum(config.helmet.hsts.v.maxAge, 31536000)

RECURSIVE Join(_, _)
\* Array.prototype.join(sep) on an array of strings
Join(a, sep) ==
    IF a = << >> THEN << >>
    ELSE IF Len(a) = 1 THEN a[1]
    ELSE a[1] \o <<sep>> \o Join(Tail(a), sep)

\* the symbols occurring in s
Symbols(s) == {s[i] : i \in DOMAIN s}

\* s is origin,origin,...,origin with no origin empty
IsOriginList(s) ==
    /\ s # << >>
    /\ s[1] # ","
    /\ s[Len(s)] # ","
    /\ \A i \in 1..(Len(s) - 1) : ~(s[i] = "," /\ s[i + 1] = ",")

(***************************************************************************)
(* C7: in production, when ALLOWED_ORIGINS is a comma-separated list of    *)
(* non-empty origins, cors.origin is the list of those origins in the same *)
(* order, one element per origin.                                          *)
(***************************************************************************)
C7_ProductionOriginsInOrder ==
    (Loaded /\ NodeEnvIs("production") /\ IsSet(env, "ALLOWED_ORIGINS")
        /\ IsOriginList(ValueOf(env, "ALLOWED_ORIGINS"))) =>
        /\ config.cors.origin.t = "array"
        /\ \A i \in DOMAIN config.cors.origin.v :
              /\ config.cors.origin.v[i] # << >>
              /\ "," \notin Symbols(config.cors.origin.v[i])
        /\ Join(config.cors.origin.v, ",") = ValueOf(env, "ALLOWED_ORIGINS")

\* 'https://a.com,https://b.com' gives the two origins, a.com first
C7_Witness ==
    /\ Loaded
    /\ NodeEnvIs("production")
    /\ env["ALLOWED_ORIGINS"] = {<<"https://a.com", ",", "https://b.com">>}
    /\ config.cors.origin.v = << <<"https://a.com">>, <<"https://b.com">> >>

\* the list ['https://yourdomain.com']
IsPlaceholderList(x) ==
    x.t = "array" /\ x.v = << <<"https://yourdomain.com">> >>

(***************************************************************************)
(* C8: in production, when ALLOWED_ORIGINS is unset or is the empty        *)
(* string, cors.origin is the one-element list holding the placeholder     *)
(* 'https://yourdomain.com'.                                               *)
(***************************************************************************)
C8_PlaceholderWhenUnsetOrEmpty ==
    (Loaded /\ NodeEnvIs("production")
        /\ (~IsSet(env, "ALLOWED_ORIGINS") \/ env["ALLOWED_ORIGINS"] = {<< >>})) =>
        IsPlaceholderList(config.cors.origin)

\* C8 as amended: in production, ALLOWED_ORIGINS unset gives the placeholder
\* list and the empty string gives the empty list (get returns '' and
\* filter(Boolean) drops the one empty piece)
C8_PlaceholderOnlyWhenUnset ==
    (Loaded /\ NodeEnvIs("production")) =>
        /\ ~IsSet(env, "ALLOWED_ORIGINS") => IsPlaceholderList(config.cors.origin)
        /\ env["ALLOWED_ORIGINS"] = {<< >>} =>
              (config.cors.origin.t = "array" /\ config.cors.origin.v = << >>)

\* production with ALLOWED_ORIGINS='': no origin at all, not the placeholder
C8_Witness ==
    /\ Loaded
    /\ NodeEnvIs("production")
    /\ env["ALLOWED_ORIGINS"] = {<< >>}
    /\ config.cors.origin.t = "array"
    /\ Len(config.cors.origin.v) = 0

\* s has no white space at either end
IsTrimmed(s) == s = << >> \/ (~IsSpace(s[1]) /\ ~IsSpace(s[Len(s)]))

\* the number of separators in s
Commas(s) == Cardinality({i \in DOMAIN s : s[i] = ","})

(***************************************************************************)
(* C9: in development and for every environment name that falls back to    *)
(* the development overlay, when ALLOWED_ORIGINS is unset or empty         *)
(* cors.origin is the fixed list of seven local origins whose first        *)
(* element is 'http://localhost:3000'; when ALLOWED_ORIGINS is non-empty   *)
(* the list is built from it instead.                                      *)
(***************************************************************************)
C9_DevelopmentOrigins ==
    (Loaded /\ ~NodeEnvIs("production") /\ ~NodeEnvIs("test")) =>
        /\ config.cors.origin.t = "array"
        /\ IF ~IsSet(env, "ALLOWED_ORIGINS") \/ env["ALLOWED_ORIGINS"] = {<< >>}
           THEN /\ Len(config.cors.origin.v) = 7
                /\ config.cors.origin.v[1] = <<"http://localhost:3000">>
                /\ config.cors.origin.v = LocalOrigins
           ELSE LET value == ValueOf(env, "ALLOWED_ORIGINS")
                IN  /\ Len(config.cors.origin.v) = Commas(value) + 1
                    /\ config.cors.origin.v = MapTrim(Split(value, ","))
                    /\ \A i \in DOMAIN config.cors.origin.v :
                          \* each element is a trimmed piece of the value
                          /\ IsTrimmed(config.cors.origin.v[i])
                          /\ Symbols(config.cors.origin.v[i]) \subseteq
                                Symbols(value) \ {","}

\* an unknown environment name with the variable unset: the local origins
C9_Witness ==
    /\ Loaded
    /\ NodeEnvIs("staging")
    /\ ~IsSet(env, "ALLOWED_ORIGINS")
    /\ Len(config.cors.origin.v) = 7
    /\ config.cors.origin.v[1] = <<"http://localhost:3000">>

\* cors.origin comes from the variable: production reads it whenever it is
\* set, the development overlay when it is set and not empty
BuiltFromAllowedOrigins ==
    /\ IsSet(env, "ALLOWED_ORIGINS")
    /\ \/ NodeEnvIs("production")
       \/ (~NodeEnvIs("test") /\ ValueOf(env, "ALLOWED_ORIGINS") # << >>)

(***************************************************************************)
(* C10: whenever cors.origin is built from ALLOWED_ORIGINS, in development *)
(* and production alike, no element of the resolved list has leading or    *)
(* trailing white space.                                                   *)
(***************************************************************************)
C10_OriginsTrimmed ==
    (Loaded /\ BuiltFromAllowedOrigins) =>
        \A i \in DOMAIN config.cors.origin.v : IsTrimmed(config.cors.origin.v[i])

(***************************************************************************)
(* C11: when LOG_LEVEL and LOG_PRETTY are both unset, the resolved logging *)
(* section is {level: 'debug', prettyPrint: true} in development,          *)
(* {level: 'info', prettyPrint: false} in production, and in test the base *)
(* default {level: 'info', prettyPrint: false}, the test overlay defining  *)
(* no logging section.                                                     *)
(***************************************************************************)
C11_LoggingDefaults ==
    (Loaded /\ ~IsSet(env, "LOG_LEVEL") /\ ~IsSet(env, "LOG_PRETTY")) =>
        /\ DOMAIN config.logging = {"level", "prettyPrint"}
        /\ NodeEnvIs("development") =>
              (IsWord(config.logging.level, "debug")
                  /\ IsBool(config.logging.prettyPrint, TRUE))
        /\ NodeEnvIs("production") =>
              (IsWord(config.logging.level, "info")
                  /\ IsBool(config.logging.prettyPrint, FALSE))
        /\ NodeEnvIs("test") =>
              (IsWord(config.logging.level, "info")
                  /\ IsBool(config.logging.prettyPrint, FALSE)
                  /\ "logging" \notin DOMAIN envConfig(env))

\* test with neither variable set: the base section, 'info' and false
C11_Witness ==
    /\ Loaded
    /\ NodeEnvIs("test")
    /\ ~IsSet(env, "LOG_LEVEL")
    /\ ~IsSet(env, "LOG_PRETTY")
    /\ IsWord(config.logging.level, "info")
    /\ IsBool(config.logging.prettyPrint, FALSE)

\* the LOG_PRETTY string in effect: the variable, else the default of the
\* table that writes logging ('true' in the development overlay, 'false' in
\* production and in the base table that test inherits)
EffectiveLogPretty ==
    IF IsSet(env, "LOG_PRETTY") THEN ValueOf(env, "LOG_PRETTY")
    ELSE IF NodeEnvIs("production") \/ NodeEnvIs("test") THEN <<"false">>
    ELSE <<"true">>

(***************************************************************************)
(* C12: for every environment name and every LOG_PRETTY value, the         *)
(* resolved logging.prettyPrint is a boolean, true exactly when the        *)
(* effective LOG_PRETTY string equals the literal 'true'; 'TRUE' and '1'   *)
(* give false.                                                             *)
(***************************************************************************)
C12_PrettyPrintIsLiteralTrue ==
    Loaded =>
        /\ config.logging.prettyPrint.t = "boolean"
        /\ config.logging.prettyPrint.v = (EffectiveLogPretty = <<"true">>)

\* development with LOG_PRETTY=TRUE: not the literal, so false
C12_Witness ==
    /\ Loaded
    /\ NodeEnvIs("development")
    /\ env["LOG_PRETTY"] = {<<"TRUE">>}
    /\ IsBool(config.logging.prettyPrint, FALSE)

(***************************************************************************)
(* C13: for every environment name and every PORT setting (unset, or a     *)
(* decimal string such as '8080'), app.port in the resolved record is a    *)
(* positive integer number, not the raw environment string.                *)
(***************************************************************************)
C13_PortIsPositiveInteger ==
    Loaded =>
        IF config.app.port.t = "number" THEN config.app.port.v > 0 ELSE FALSE

\* the cases of C14: PORT and APP_NAME both unset, record resolved
AppDefaultsCase ==
    Loaded /\ ~IsSet(env, "PORT") /\ ~IsSet(env, "APP_NAME")

(***************************************************************************)
(* C14: for every environment name, when PORT and APP_NAME are unset the   *)
(* resolved app section has port 3000 and name 'nestjs-app'.               *)
(***************************************************************************)
C14_AppDefaultsEverywhere ==
    AppDefaultsCase =>
        /\ IsNum(config.app.port, 3000)
        /\ IsWord(config.app.name, "nestjs-app")

(***************************************************************************)
(* C14 as amended: with PORT and APP_NAME unset the app section has port   *)
(* 3000 and name 'nestjs-app' for every environment name other than        *)
(* 'test'; for 'test' it has port 3001 and name 'nestjs-app-test'.         *)
(***************************************************************************)
C14_AppDefaultsOutsideTest ==
    AppDefaultsCase =>
        IF NodeEnvIs("test")
        THEN /\ IsNum(config.app.port, 3001)
             /\ IsWord(config.app.name, "nestjs-app-test")
        ELSE /\ IsNum(config.app.port, 3000)
             /\ IsWord(config.app.name, "nestjs-app")

\* test with neither variable set: the overlay's own defaults
C14_Witness ==
    /\ AppDefaultsCase
    /\ NodeEnvIs("test")
    /\ IsNum(config.app.port, 3001)
    /\ IsWord(config.app.name, "nestjs-app-test")

(***************************************************************************)
(* C15: in production, the resolved cors.credentials is the boolean true   *)
(* when CORS_CREDENTIALS is the string 'true', the boolean false when it   *)
(* is the string 'false' or is unset; it is never a string.                *)
(***************************************************************************)
C15_ProductionCredentialsBoolean ==
    (Loaded /\ NodeEnvIs("production")) =>
        /\ config.cors.credentials.t = "boolean"
        /\ env["CORS_CREDENTIALS"] = {<<"true">>} =>
              IsBool(config.cors.credentials, TRUE)
        /\ env["CORS_CREDENTIALS"] \in {{<<"false">>}, {}} =>
              IsBool(config.cors.credentials, FALSE)

\* what get(key, default) hands back for a variable: its string when set
RawOr(k, d) ==
    IF IsSet(env, k) THEN Str(ValueOf(env, k)) ELSE d

OriginAllowsAll(origin) ==
    CASE origin.t = "boolean" -> origin.v
      [] origin.t = "string" -> origin.v = <<"*">>
      [] origin.t = "array" -> \E i \in DOMAIN origin.v : origin.v[i] = <<"*">>
      [] OTHER -> FALSE

(***************************************************************************)
(* C17: in every resolved record, for every environment name and every     *)
(* combination of ALLOWED_ORIGINS and CORS_CREDENTIALS, cors.origin is not *)
(* the wildcard '*' (alone or as a list element) nor the allow-all value   *)
(* true while cors.credentials is true (or truthy).                        *)
(***************************************************************************)
C17_NoWildcardWithCredentials ==
    Loaded =>
        ~(Truthy(config.cors.credentials) /\ OriginAllowsAll(config.cors.origin))

\* the sections the ConfigService does not hold
Missing == Sections \ DOMAIN store

\* the errors C19 names for a set of missing sections: a factory error when
\* logging or throttle is missing, else getOrThrow's for the first of app,
\* cors, helmet that is missing
ExpectedErrors(missing) ==
    IF missing \cap {"logging", "throttle"} # {}
    THEN {e \in {[name |-> "Error", message |-> <<"Logging configuration not found. Ensure ConfigModule is properly configured.">>]} :
             "logging" \in missing}
         \cup
         {e \in {[name |-> "Error", message |-> <<"Throttle configuration not found. Ensure ConfigModule is properly configured.">>]} :
             "throttle" \in missing}
    ELSE LET first == IF "app" \in missing THEN "app"
                      ELSE IF "cors" \in missing THEN "cors" ELSE "helmet"
         IN  {[name |-> "TypeError",
               message |-> <<"Configuration key", first, "does not exist">>]}

\* the 'Application started at ...' line was logged
StartedLogged ==
    \E i \in DOMAIN out :
        out[i].to = "logger"
            /\ out[i].text[1] = "Application started at http://localhost:"

(***************************************************************************)
(* C19: if any of the five sections (app, cors, helmet, logging, throttle) *)
(* is absent from the configuration at startup, startup aborts: an error   *)
(* is raised (getOrThrow's for app, cors, helmet; the factory errors       *)
(* 'Logging configuration not found...' / 'Throttle configuration not      *)
(* found...' for logging, throttle), the process exits with a non-zero     *)
(* code, and the server never starts listening.  Stated on every state of  *)
(* a start with a section missing: the server does not listen and has      *)
(* logged no start; an error raised is one of those named; bootstrap       *)
(* stops nowhere but at the exit, and the exit code is 1.                  *)
(***************************************************************************)
C19_MissingSectionAborts ==
    Missing # {} =>
        /\ listening = Undefined
        /\ bpc \notin {"log", "running"}
        /\ ~StartedLogged
        /\ error \subseteq ExpectedErrors(Missing)
        /\ bpc \in {"catch", "exited"} => error # {}
        /\ bpc # "exited" => ENABLED NextBoot
        /\ bpc = "exited" => exitCode = {1}
        /\ exitCode \subseteq {1}

\* only helmet missing: the third getOrThrow raised, the process exited with 1
C19_Witness ==
    /\ Missing = {"helmet"}
    /\ bpc = "exited"
    /\ DOMAIN locals = {"app", "cors"}
    /\ error = {TypeError(<<"Configuration key", "helmet", "does not exist">>)}
    /\ exitCode = {1}
    /\ listening = Undefined

\* the statuses C20 calls healthy
HealthyStatuses == (200..399) \cup {404}

(***************************************************************************)
(* C20: the health-check script exits with code 0 when the response status *)
(* is in 200..399 or is exactly 404, and with code 1 for every other       *)
(* response status and for every connection error; it never exits with any *)
(* other code.                                                             *)
(***************************************************************************)
C20_HealthExitCodes ==
    /\ hcExit \subseteq {0, 1}
    /\ hcExit # {} <=> hpc = "exited"
    /\ hpc = "exited" =>
          IF res = {}
          THEN hcExit = {1}
          ELSE \A statusCode \in res :
                  hcExit = {IF statusCode \in HealthyStatuses THEN 0 ELSE 1}

\* a 404 response: the script exited with 0
C20_Witness ==
    /\ hpc = "exited"
    /\ res = {404}
    /\ hcExit = {0}

(***************************************************************************)
(* C21: every run of the health-check script eventually exits: if the      *)
(* server accepts the connection but sends no response within the          *)
(* configured 2000 ms timeout, the script exits with code 1 (unhealthy)    *)
(* rather than waiting forever.  Stated on every state: once the timeout   *)
(* has passed without a response, the script has exited with code 1.       *)
(***************************************************************************)
C21_TimeoutExits ==
    timedOut => (hpc = "exited" /\ hcExit = {1})

FactoriesReturned == modules # << >>

(***************************************************************************)
(* C23: loggerModuleFactory returns pinoHttp with level equal to           *)
(* logging.level and autoLogging false, and with a transport (target       *)
(* 'pino-pretty') present if and only if logging.prettyPrint is true; when *)
(* prettyPrint is false the transport is undefined.                        *)
(***************************************************************************)
C23_PinoHttpFromLogging ==
    FactoriesReturned =>
        LET pinoHttp == modules.logger.pinoHttp
        IN  /\ pinoHttp.level = store.logging.level
            /\ pinoHttp.autoLogging = Bool(FALSE)
            /\ "transport" \in DOMAIN pinoHttp
                  <=> store.logging.prettyPrint = Bool(TRUE)
            /\ "transport" \in DOMAIN pinoHttp =>
                  pinoHttp.transport.target = Word("pino-pretty")

\* production, prettyPrint false: level 'info' and no transport
C23_Witness ==
    /\ FactoriesReturned
    /\ store.logging.prettyPrint = Bool(FALSE)
    /\ modules.logger.pinoHttp.level = Word("info")
    /\ "transport" \notin DOMAIN modules.logger.pinoHttp

(***************************************************************************)
(* C24: for every environment name and every environment-variable          *)
(* assignment, the resolved helmet section has frameguard {action:         *)
(* 'deny'}, noSniff true, hidePoweredBy true, dnsPrefetchControl {allow:   *)
(* false} and ieNoOpen true: no overlay and no environment variable        *)
(* changes these five fields.                                              *)
(***************************************************************************)
C24_HelmetFixedFields ==
    Loaded =>
        /\ {"frameguard", "noSniff", "hidePoweredBy", "dnsPrefetchControl",
            "ieNoOpen"} \subseteq DOMAIN config.helmet
        /\ config.helmet.frameguard = Obj([action |-> <<"deny">>])
        /\ IsBool(config.helmet.noSniff, TRUE)
        /\ IsBool(config.helmet.hidePoweredBy, TRUE)
        /\ config.helmet.dnsPrefetchControl = Obj([allow |-> Bool(FALSE)])
        /\ IsBool(config.helmet.ieNoOpen, TRUE)
        /\ DOMAIN SectionOf(envConfig(env), "helmet") \subseteq {"hsts"}

\* production with two variables set: the five fields beside the overlay's hsts
C24_Witness ==
    /\ Loaded
    /\ NodeEnvIs("production")
    /\ Cardinality(Overrides(env)) >= 2
    /\ config.helmet.hsts = HstsOneYear
    /\ config.helmet.frameguard = Obj([action |-> <<"deny">>])
    /\ IsBool(config.helmet.ieNoOpen, TRUE)

\* the level names of the logger
LogLevels == {"trace", "debug", "info", "warn", "error", "fatal"}

(***************************************************************************)
(* C25: for every environment name and every LOG_LEVEL value, the resolved *)
(* logging.level is one of 'trace', 'debug', 'info', 'warn', 'error',      *)
(* 'fatal'.                                                                *)
(***************************************************************************)
C25_LevelInEnum ==
    Loaded => \E l \in LogLevels : IsWord(config.logging.level, l)

\* the names of the middleware installed, in order
InstalledNames == [i \in DOMAIN installed |-> installed[i].name]

\* s is a prefix of t
IsPrefix(s, t) == Len(s) <= Len(t) /\ s = SubSeq(t, 1, Len(s))

\* listen(app.port) has been called, whatever came of it
ListenCalled ==
    \/ bpc \in {"log", "running"}
    \/ listening # Undefined
    \/ error = {[name |-> "Error", message |-> <<"listen EADDRINUSE">>]}

(***************************************************************************)
(* C26: in bootstrap the steps happen in a fixed order: the app, cors and  *)
(* helmet sections are read, then the security-header middleware and CORS  *)
(* are installed, then listen(app.port) is called, and the 'Application    *)
(* started at ...' message is logged only after listen has succeeded;      *)
(* listen is never called before both middlewares are installed.           *)
(***************************************************************************)
C26_BootstrapOrder ==
    /\ DOMAIN locals \in {{}, {"app"}, {"app", "cors"}, {"app", "cors", "helmet"}}
    /\ IsPrefix(InstalledNames, <<"helmet", "cors">>)
    /\ installed # << >> => DOMAIN locals = {"app", "cors", "helmet"}
    /\ (bpc = "listen" \/ ListenCalled) => InstalledNames = <<"helmet", "cors">>
    /\ listening # Undefined => listening = locals["app"].port
    /\ StartedLogged => (listening # Undefined /\ bpc = "running")

\* test environment started: both middlewares, then the listener on 3001,
\* then the line
C26_Witness ==
    /\ bpc = "running"
    /\ InstalledNames = <<"helmet", "cors">>
    /\ listening = Num(3001)
    /\ StartedLogged

\* the error was written with console.error
ErrorOnConsole ==
    \E i \in DOMAIN out :
        out[i].to = "console.error"
            /\ out[i].text = <<"Failed to start application:">>
            /\ out[i].error = error

(***************************************************************************)
(* C27: if any step of bootstrap fails, including a failure of the         *)
(* listen/bind call, the error is written to the console, the process      *)
(* exits with code 1, and the 'Application started' message is never       *)
(* logged; there is no retry and no degraded mode.  Stated on every state  *)
(* after a failure: bootstrap is at the catch callback or has exited, the  *)
(* server does not listen, no start is logged; the callback can run; at    *)
(* the exit the error is on the console, the code is 1 and nothing more    *)
(* runs.                                                                   *)
(***************************************************************************)
C27_FailureExits ==
    /\ error # {} =>
          /\ bpc \in {"catch", "exited"}
          /\ listening = Undefined
          /\ ~StartedLogged
          /\ bpc = "catch" => ENABLED Catch
          /\ bpc = "exited" =>
                (ErrorOnConsole /\ exitCode = {1} /\ ~ENABLED NextBoot)
    /\ exitCode # {} => error # {}

\* every section present, the bind failed: console line and exit code 1
C27_Witness ==
    /\ Missing = {}
    /\ error = {[name |-> "Error", message |-> <<"listen EADDRINUSE">>]}
    /\ bpc = "exited"
    /\ ErrorOnConsole
    /\ exitCode = {1}
    /\ InstalledNames = <<"helmet", "cors">>

C29_TestOriginTrue ==
    (Loaded /\ NodeEnvIs("test")) =>
        /\ IsBool(config.cors.origin, TRUE)
        /\ config = configuration([env EXCEPT !["ALLOWED_ORIGINS"] = {}])

\* test with ALLOWED_ORIGINS naming two origins: origin is still true
C29_Witness ==
    /\ Loaded
    /\ NodeEnvIs("test")
    /\ env["ALLOWED_ORIGINS"] = {<<"https://a.com", ",", "https://b.com">>}
    /\ IsBool(config.cors.origin, TRUE)

(***************************************************************************)
(* C30: the health-check script always probes localhost port 3000 at path  *)
(* /health, whatever PORT the application was configured to listen on;     *)
(* when app.port differs from 3000 the probe does not reach the            *)
(* application's listener.                                                 *)
(***************************************************************************)
C30_ProbeFixedAtPort3000 ==
    /\ probe \subseteq {[host |-> "localhost", port |-> 3000, path |-> "/health"]}
    /\ hpc # "start" => probe # {}
    /\ listening # Num(3000) =>
          /\ res = {}
          /\ ~ENABLED (\E statusCode \in StatusCodes : OnResponse(statusCode))
          /\ hpc = "exited" => hcExit = {1}

\* the application listens on 3001: the probe went to 3000 and failed
C30_Witness ==
    /\ listening = Num(3001)
    /\ probe = {[host |-> "localhost", port |-> 3000, path |-> "/health"]}
    /\ hpc = "exited"
    /\ res = {}
    /\ hcExit = {1}
====
